---- MODULE Spec2Model ----
(***************************************************************************)
(* A model of ImageTranscoderJS: the dimension resolver                    *)
(* (calculateTargetDimensions, src/src/imageProcessor.ts), the batch       *)
(* walker (convertImages / convertDirectory / convertSingleImage,          *)
(* src/src/index.ts), the command line (main, src/unnamed/part_000) and    *)
(* the format functions (src/src/config.ts).                               *)
(*                                                                         *)
(* Four specifications share the module's variables:                       *)
(*   ResolveSpec - the resolver applied to every bounded input;            *)
(*   Spec        - one run of convertImages over a bounded file system;    *)
(*   MainSpec    - the command line up to its call of convertImages;       *)
(*   FormatSpec  - the format functions applied to every bounded string.   *)
(***************************************************************************)
EXTENDS Integers, Sequences, FiniteSets, TLC

(***************************************************************************)
(* Bounds of the model.                                                    *)
(***************************************************************************)
\* original width and height range over 1..MaxDim
MaxDim == 3
\* options.width / options.height range over 0..MaxTarget (0 = not given)
MaxTarget == 2
\* options.minWidth / options.minHeight range over 0..MaxMin
MaxMin == 4
\* options.maxWidth / options.maxHeight range over 0..MaxMax
MaxMax == 2
\* a directory of the input lists at most MaxEntries entries
MaxEntries == 2
\* a numeric option of the command line or the configuration file ranges
\* over 1..MaxOpt
MaxOpt == 2
\* the command line and the configuration file give at most MaxGiven options
\* in all, --format aside
MaxGiven == 2

VARIABLES
    \* ---- resolver (calculateTargetDimensions) ----
    originalWidth,      \* parameter originalWidth
    originalHeight,     \* parameter originalHeight
    options,            \* parameter options (the constraint fields)
    resolved,           \* FALSE before the call returns, TRUE after
    width,              \* returned width  (0 until resolved)
    height,             \* returned height (0 until resolved)
    \* ---- one run of convertImages ----
    cliOptions,         \* the CliOptions fields the walker reads
    inputKind,          \* what options.input names: "missing", "file", "dir"
    input,              \* the input directory (its listing) or the input file
    dirState,           \* output directories: "missing", "exists", "blocked"
    outFiles,           \* output path -> content of the file there
    pc,                 \* position in convertImages
    imageFiles,         \* convertDirectory: the files findImageFiles returned
    idx,                \* convertDirectory: index of the file being handled
    results,            \* the ProcessResults produced so far
    summary,            \* the ProcessingSummary returned (NoSummary until then)
    processCalls,       \* the input paths processImage was invoked with
    outputPath,         \* the output path of the file being handled
    fatal,              \* message of the error thrown to the caller, or NoError
    \* ---- the command line (main) ----
    argv,               \* the options given on the command line
    config,             \* the file --config names: given, readable, its JSON
    opts,               \* program.opts()
    merged,             \* main's const cliOptions: the merged options
    mainPc,             \* position in main
    exitCode,           \* <<code>> once process.exit(code) was called
    stderr,             \* the message console.error printed
    \* ---- the format functions ----
    fmt,                \* the string the functions are applied to
    normalizeResult,    \* what normalizeFormat(fmt) did
    renormalizeResult,  \* what normalizeFormat did on its own result
    supportsQuality,    \* <<formatSupportsQuality(fmt)>>
    quality,            \* options.quality: <<>> (undefined) or <<value>>
    toFormatCall,       \* <<the arguments of pipeline.toFormat>> once it is called
    fpc                 \* position in the sequence of calls

resolveVars == <<originalWidth, originalHeight, options, resolved, width, height>>
batchVars == <<cliOptions, inputKind, input, dirState, outFiles, pc,
               imageFiles, idx, results, summary, processCalls, outputPath, fatal>>
mainVars == <<argv, config, opts, merged, mainPc, exitCode, stderr>>
formatVars == <<fmt, normalizeResult, renormalizeResult, supportsQuality, quality,
               toFormatCall, fpc>>
vars == <<resolveVars, batchVars, mainVars, formatVars>>

(***************************************************************************)
(* JavaScript numbers.  Dimensions are non-negative integers; a division   *)
(* by a zero dimension yields +Infinity, and Infinity * 0 yields NaN.      *)
(* The two non-finite values are encoded as negative integers, which no    *)
(* finite dimension of the model takes.                                    *)
(***************************************************************************)
Infinity == -1
NaN == -2

IsFinite(x) == x >= 0

\* a < b on JavaScript numbers (every comparison with NaN is false)
Less(a, b) ==
    IF a = NaN \/ b = NaN THEN FALSE
    ELSE IF a = Infinity THEN FALSE
    ELSE IF b = Infinity THEN TRUE
    ELSE a < b

\* Math.round of the non-negative rational num/den (den > 0): floor(x + 0.5)
Round(num, den) == (2 * num + den) \div (2 * den)

\* Math.round(x * (a / b)) and Math.round((x * a) / b), a a positive integer.
\* b = 0 makes the quotient +Infinity, b = Infinity makes it 0.
\* Within the bounds of the model the double-precision result equals the
\* exactly rounded rational.
ScaledRound(x, a, b) ==
    IF x = NaN \/ b = NaN THEN NaN
    ELSE IF b = 0 THEN (IF x = 0 THEN NaN ELSE Infinity)
    ELSE IF b = Infinity THEN (IF x = Infinity THEN NaN ELSE 0)
    ELSE IF x = Infinity THEN Infinity
    ELSE Round(x * a, b)

(***************************************************************************)
(* calculateTargetDimensions, stage by stage.  A size is a record          *)
(* [w |-> targetWidth, h |-> targetHeight]; o is the options record, in    *)
(* which 0 stands for an option that is not given (the code tests each     *)
(* option for truthiness, so undefined and 0 behave alike).                *)
(***************************************************************************)
\* PrimaryScaling with Math.max for Math.min: fills the box instead of fitting it
PrimaryScaling_FillBox(W, H, o) ==
    IF o.width # 0 /\ o.height = 0
    THEN [w |-> o.width, h |-> Round(H * o.width, W)]
    ELSE IF o.height # 0 /\ o.width = 0
    THEN [w |-> Round(W * o.height, H), h |-> o.height]
    ELSE IF o.width # 0 /\ o.height # 0
    THEN IF o.width * H >= o.height * W
         THEN [w |-> Round(W * o.width, W), h |-> Round(H * o.width, W)]
         ELSE [w |-> Round(W * o.height, H), h |-> Round(H * o.height, H)]
    ELSE [w |-> W, h |-> H]

\* PrimaryScaling with Math.floor for Math.round
PrimaryScaling_Floor(W, H, o) ==
    IF o.width # 0 /\ o.height = 0
    THEN [w |-> o.width, h |-> (H * o.width) \div W]
    ELSE IF o.height # 0 /\ o.width = 0
    THEN [w |-> (W * o.height) \div H, h |-> o.height]
    ELSE IF o.width # 0 /\ o.height # 0
    THEN IF o.width * H <= o.height * W
         THEN [w |-> (W * o.width) \div W, h |-> (H * o.width) \div W]
         ELSE [w |-> (W * o.height) \div H, h |-> (H * o.height) \div H]
    ELSE [w |-> W, h |-> H]

\* lines 24-39: width / height targets
PrimaryScaling(W, H, o) ==
    IF o.width # 0 /\ o.height = 0
    THEN [w |-> o.width, h |-> Round(H * o.width, W)]
    ELSE IF o.height # 0 /\ o.width = 0
    THEN [w |-> Round(W * o.height, H), h |-> o.height]
    ELSE IF o.width # 0 /\ o.height # 0
    THEN \* ratio = Math.min(width / W, height / H)
         IF o.width * H <= o.height * W
         THEN [w |-> Round(W * o.width, W), h |-> Round(H * o.width, W)]
         ELSE [w |-> Round(W * o.height, H), h |-> Round(H * o.height, H)]
    ELSE [w |-> W, h |-> H]

\* MinWidthStage that does nothing unless upscaling is allowed
MinWidthStage_OnlyUpscale(d, o) ==
    IF o.minWidth # 0 /\ Less(d.w, o.minWidth) /\ o.allowUpscale
    THEN [w |-> o.minWidth, h |-> ScaledRound(d.h, o.minWidth, d.w)]
    ELSE d

\* MinWidthStage dividing by the width before the assignment in both branches
MinWidthStage_OldDivisor(d, o) ==
    IF o.minWidth # 0 /\ Less(d.w, o.minWidth)
    THEN [w |-> o.minWidth, h |-> ScaledRound(d.h, o.minWidth, d.w)]
    ELSE d

\* lines 42-51: minimum width
MinWidthStage(d, o) ==
    IF o.minWidth # 0 /\ Less(d.w, o.minWidth)
    THEN IF o.allowUpscale
         THEN \* scale is computed from the width before the assignment
              [w |-> o.minWidth, h |-> ScaledRound(d.h, o.minWidth, d.w)]
         ELSE \* the divisor is targetWidth after the assignment
              [w |-> o.minWidth, h |-> ScaledRound(d.h, o.minWidth, o.minWidth)]
    ELSE d

\* MinHeightStage testing the width against minHeight (a copy of the width test)
MinHeightStage_TestsWidth(d, o) ==
    IF o.minHeight # 0 /\ Less(d.w, o.minHeight)
    THEN IF o.allowUpscale
         THEN [w |-> ScaledRound(d.w, o.minHeight, d.h), h |-> o.minHeight]
         ELSE [w |-> ScaledRound(d.w, o.minHeight, o.minHeight), h |-> o.minHeight]
    ELSE d

\* lines 52-61: minimum height
MinHeightStage(d, o) ==
    IF o.minHeight # 0 /\ Less(d.h, o.minHeight)
    THEN IF o.allowUpscale
         THEN [w |-> ScaledRound(d.w, o.minHeight, d.h), h |-> o.minHeight]
         ELSE [w |-> ScaledRound(d.w, o.minHeight, o.minHeight), h |-> o.minHeight]
    ELSE d

\* lines 64-68: maximum width
MaxWidthStage(d, o) ==
    IF o.maxWidth # 0 /\ Less(o.maxWidth, d.w)
    THEN [w |-> o.maxWidth, h |-> ScaledRound(d.h, o.maxWidth, d.w)]
    ELSE d

\* MaxHeightStage that rescales the width but leaves the height unassigned
MaxHeightStage_KeepsHeight(d, o) ==
    IF o.maxHeight # 0 /\ Less(o.maxHeight, d.h)
    THEN [w |-> ScaledRound(d.w, o.maxHeight, d.h), h |-> d.h]
    ELSE d

\* lines 69-73: maximum height
MaxHeightStage(d, o) ==
    IF o.maxHeight # 0 /\ Less(o.maxHeight, d.h)
    THEN [w |-> ScaledRound(d.w, o.maxHeight, d.h), h |-> o.maxHeight]
    ELSE d

\* the size after the two minimum stages (lines 20-61)
AfterMinStages(W, H, o) ==
    MinHeightStage(MinWidthStage(PrimaryScaling(W, H, o), o), o)

calculateTargetDimensions(W, H, o) ==
    MaxHeightStage(MaxWidthStage(AfterMinStages(W, H, o), o), o)

(***************************************************************************)
(* Formats and extensions (src/src/config.ts, src/src/imageProcessor.ts).  *)
(* A format or extension string is a sequence of one-character strings,    *)
(* so that String.toLowerCase is computed rather than assumed.             *)
(***************************************************************************)
UpperCase == <<"A", "B", "C", "D", "E", "F", "G", "H", "I", "J", "K", "L", "M",
               "N", "O", "P", "Q", "R", "S", "T", "U", "V", "W", "X", "Y", "Z">>
LowerCase == <<"a", "b", "c", "d", "e", "f", "g", "h", "i", "j", "k", "l", "m",
               "n", "o", "p", "q", "r", "s", "t", "u", "v", "w", "x", "y", "z">>

toLowerCase(s) ==
    [i \in 1..Len(s) |->
        IF \E k \in 1..Len(UpperCase) : UpperCase[k] = s[i]
        THEN LowerCase[CHOOSE k \in 1..Len(UpperCase) : UpperCase[k] = s[i]]
        ELSE s[i]]

Jpg == <<"j", "p", "g">>
Jpeg == <<"j", "p", "e", "g">>
Png == <<"p", "n", "g">>
Webp == <<"w", "e", "b", "p">>
Gif == <<"g", "i", "f">>
Tiff == <<"t", "i", "f", "f">>
Tif == <<"t", "i", "f">>
Bmp == <<"b", "m", "p">>
Avif == <<"a", "v", "i", "f">>
Heic == <<"h", "e", "i", "c">>
Heif == <<"h", "e", "i", "f">>
Txt == <<"t", "x", "t">>

SUPPORTED_OUTPUT_FORMATS == {Jpg, Jpeg, Png, Webp, Gif, Tiff, Bmp, Avif}

isSupportedOutputFormat(format) == toLowerCase(format) \in SUPPORTED_OUTPUT_FORMATS

\* normalizeFormat without the jpg branch
normalizeFormat_KeepsJpg(format) ==
    LET normalized == toLowerCase(format)
    IN  IF isSupportedOutputFormat(normalized)
        THEN [threw |-> FALSE, value |-> normalized]
        ELSE [threw |-> TRUE, value |-> format]

\* [threw |-> TRUE] stands for the Error normalizeFormat throws
normalizeFormat(format) ==
    LET normalized == toLowerCase(format)
    IN  IF normalized = Jpg THEN [threw |-> FALSE, value |-> Jpeg]
        ELSE IF isSupportedOutputFormat(normalized)
        THEN [threw |-> FALSE, value |-> normalized]
        ELSE [threw |-> TRUE, value |-> format]

isImageExtension(extension) ==
    toLowerCase(extension) \in
        {Jpg, Jpeg, Png, Webp, Gif, Tiff, Tif, Bmp, Avif, Heic, Heif}

\* a file name is [base, ext]; the extension is held without its dot
getFileExtension(name) == toLowerCase(name.ext)

(***************************************************************************)
(* The file system the run sees.                                           *)
(*   An input directory is [readable, entries]; an entry is a file         *)
(*   [kind |-> "file", name] or a directory [kind |-> "dir", name, dir].    *)
(*   An input path is [dir, base, ext], dir relative to the input root.    *)
(*   An output path is [dir, base, ext], dir relative to the output root.  *)
(*   dirState[d] is "exists", "missing", or "blocked" (mkdir fails there:  *)
(*   a regular file has the name, or permission is denied).                *)
(*   outFiles[p] is the content at output path p.                          *)
(***************************************************************************)
Root == "."
SubDir == "sub"
OutDirs == {Root, SubDir}

NoFile == [dir |-> "", base |-> "", ext |-> <<>>]
Absent == [state |-> "absent", by |-> NoFile]
Old == [state |-> "old", by |-> NoFile]
Written(f) == [state |-> "written", by |-> f]
Partial(f) == [state |-> "partial", by |-> f]

\* path.join(dirPath, name) for directory names
JoinDir(dirPath, name) == IF dirPath = Root THEN name ELSE dirPath \o "/" \o name

\* fs.access(path): resolves exactly when a file is there
Exists(files, p) == p \in DOMAIN files /\ files[p].state # "absent"

\* fs.mkdir(d, {recursive: true}): fails when d or an ancestor is blocked
MkdirFails(dirs, d) == dirs[Root] = "blocked" \/ dirs[d] = "blocked"
MkdirDone(dirs, d) == [x \in DOMAIN dirs |-> IF x = d \/ x = Root THEN "exists" ELSE dirs[x]]

(***************************************************************************)
(* findImageFiles (src/src/index.ts:63-82).                                *)
(***************************************************************************)
RECURSIVE findImageFiles(_, _, _)
RECURSIVE ScanEntries(_, _, _)

\* the for loop of findImageFiles over the entries that are left
ScanEntries(dirPath, entries, recursive) ==
    IF entries = <<>> THEN [threw |-> FALSE, files |-> <<>>]
    ELSE LET entry == Head(entries)
             here == IF entry.kind = "dir" /\ recursive
                     THEN findImageFiles(JoinDir(dirPath, entry.name), entry.dir, recursive)
                     ELSE IF entry.kind = "file"
                               /\ isImageExtension(getFileExtension(entry.name))
                     THEN [threw |-> FALSE,
                           files |-> << [dir |-> dirPath, base |-> entry.name.base,
                                         ext |-> entry.name.ext] >>]
                     ELSE [threw |-> FALSE, files |-> <<>>]
             rest == ScanEntries(dirPath, Tail(entries), recursive)
         IN  IF here.threw \/ rest.threw
             THEN [threw |-> TRUE, files |-> <<>>]
             ELSE [threw |-> FALSE, files |-> here.files \o rest.files]

\* fs.readdir throws on a directory that cannot be read
findImageFiles(dirPath, dir, recursive) ==
    IF ~dir.readable THEN [threw |-> TRUE, files |-> <<>>]
    ELSE ScanEntries(dirPath, dir.entries, recursive)

\* generateOutputPath (src/src/index.ts:93-108): the input's path relative to
\* the input root, with the extension replaced by the format
generateOutputPath(inputPath, format) ==
    [dir |-> inputPath.dir, base |-> inputPath.base, ext |-> format]

(***************************************************************************)
(* processImage (src/src/imageProcessor.ts:86-150): the result and the     *)
(* output files after the call, for each way the environment can answer.   *)
(***************************************************************************)
ProcessOutcomes ==
    {"statFails", "metadataFails", "noDimensions", "writeFails", "writeFailsPartial",
     "statOutputFails", "ok"}

Failure(inputPath, outPath, message) ==
    [inputPath |-> inputPath, outputPath |-> outPath, success |-> FALSE,
     error |-> message]

Success(inputPath, outPath) ==
    [inputPath |-> inputPath, outputPath |-> outPath, success |-> TRUE,
     originalSize |-> "size of input", newSize |-> "size of output"]

processImage(inputPath, outPath, format, files, outcome) ==
    IF outcome = "statFails"
    THEN [result |-> Failure(inputPath, outPath, "stat failed"), files |-> files]
    ELSE IF outcome = "metadataFails"
    THEN [result |-> Failure(inputPath, outPath, "metadata failed"), files |-> files]
    ELSE IF outcome = "noDimensions"
    THEN [result |-> Failure(inputPath, outPath, "Unable to read image dimensions"),
          files |-> files]
    ELSE IF normalizeFormat(format).threw
    THEN [result |-> Failure(inputPath, outPath, "Unsupported format"), files |-> files]
    ELSE IF outcome = "writeFails"
    THEN [result |-> Failure(inputPath, outPath, "toFile failed"), files |-> files]
    ELSE IF outcome = "writeFailsPartial"
    THEN [result |-> Failure(inputPath, outPath, "toFile failed"),
          files |-> [files EXCEPT ![outPath] = Partial(inputPath)]]
    ELSE IF outcome = "statOutputFails"
    THEN [result |-> Failure(inputPath, outPath, "stat of output failed"),
          files |-> [files EXCEPT ![outPath] = Written(inputPath)]]
    ELSE [result |-> Success(inputPath, outPath),
          files |-> [files EXCEPT ![outPath] = Written(inputPath)]]

AlreadyExists == "Output file already exists. Use --overwrite to replace it."
NotAccessible == "Input path does not exist or is not accessible"
NoError == ""

Count(rs, ok) == Cardinality({i \in 1..Len(rs) : rs[i].success = ok})

\* Summarize counting as failed only the files that were skipped
Summarize_FailedAreSkipped(rs) ==
    [total |-> Len(rs), successful |-> Count(rs, TRUE),
     failed |-> Cardinality({i \in 1..Len(rs) :
                    ~rs[i].success /\ rs[i].error = AlreadyExists}),
     results |-> rs]

\* convertDirectory's summary (src/src/index.ts:182-190)
Summarize(rs) ==
    [total |-> Len(rs), successful |-> Count(rs, TRUE), failed |-> Count(rs, FALSE),
     results |-> rs]


(***************************************************************************)
(* One run of convertImages (src/src/index.ts:199-236).  The awaited       *)
(* steps run one after the other; pc names the next one.  An error thrown  *)
(* anywhere below convertImages reaches its catch block, which throws      *)
(* NotAccessible to the caller.                                            *)
(***************************************************************************)
Throws ==
    /\ pc' = "thrown"
    /\ fatal' = NotAccessible

\* the path --output names when it names a file
UserOutputFile == [dir |-> Root, base |-> "a", ext |-> Jpeg]

\* lines 200-221: stat the input, pick the directory or the single-file path
ConvertImages ==
    /\ pc = "start"
    /\ IF inputKind = "missing"
       THEN Throws /\ UNCHANGED outputPath
       ELSE IF inputKind = "dir"
       THEN pc' = "convertDirectory" /\ UNCHANGED <<outputPath, fatal>>
       ELSE IF cliOptions.output = "dir" /\ dirState[Root] = "exists"
       THEN \* the output is a directory: the file name is generated
            IF normalizeFormat(cliOptions.format).threw
            THEN Throws /\ UNCHANGED outputPath
            ELSE /\ outputPath' = [dir |-> Root, base |-> input.base,
                                   ext |-> normalizeFormat(cliOptions.format).value]
                 /\ pc' = "convertSingleImage"
                 /\ UNCHANGED fatal
       ELSE /\ outputPath' = UserOutputFile
            /\ pc' = "convertSingleImage"
            /\ UNCHANGED fatal
    /\ UNCHANGED <<cliOptions, inputKind, input, dirState, outFiles, imageFiles, idx,
                   results, summary, processCalls>>
    /\ UNCHANGED <<resolveVars, mainVars, formatVars>>

\* convertSingleImage, lines 21-22: create the output's directory
SingleMkdir ==
    /\ pc = "convertSingleImage"
    /\ IF MkdirFails(dirState, outputPath.dir)
       THEN Throws /\ UNCHANGED dirState
       ELSE /\ dirState' = MkdirDone(dirState, outputPath.dir)
            /\ pc' = "singleCheck"
            /\ UNCHANGED fatal
    /\ UNCHANGED <<cliOptions, inputKind, input, outFiles, imageFiles, idx, results,
                   summary, processCalls, outputPath>>
    /\ UNCHANGED <<resolveVars, mainVars, formatVars>>

\* the summary convertImages builds around one result (lines 224-229)
SingleSummary(result) ==
    [total |-> 1,
     successful |-> IF result.success THEN 1 ELSE 0,
     failed |-> IF result.success THEN 0 ELSE 1,
     results |-> <<result>>]

\* convertSingleImage, lines 25-38: the overwrite check
SingleCheckExists ==
    /\ pc = "singleCheck"
    /\ IF ~cliOptions.overwrite /\ Exists(outFiles, outputPath)
       THEN LET result == Failure(input, outputPath, AlreadyExists)
            IN  /\ results' = <<result>>
                /\ summary' = <<SingleSummary(result)>>
                /\ pc' = "done"
       ELSE /\ pc' = "singleProcess"
            /\ UNCHANGED <<results, summary>>
    /\ UNCHANGED <<cliOptions, inputKind, input, dirState, outFiles, imageFiles, idx,
                   processCalls, fatal, outputPath>>
    /\ UNCHANGED <<resolveVars, mainVars, formatVars>>

\* convertSingleImage, lines 41-53, and the return of convertImages
SingleProcess ==
    /\ pc = "singleProcess"
    /\ IF normalizeFormat(cliOptions.format).threw
       THEN Throws /\ UNCHANGED <<results, summary, outFiles, processCalls>>
       ELSE \E outcome \in ProcessOutcomes :
              LET r == processImage(input, outputPath,
                                    normalizeFormat(cliOptions.format).value,
                                    outFiles, outcome)
              IN  /\ processCalls' = Append(processCalls, input)
                  /\ outFiles' = r.files
                  /\ results' = <<r.result>>
                  /\ summary' = <<SingleSummary(r.result)>>
                  /\ pc' = "done"
                  /\ UNCHANGED fatal
    /\ UNCHANGED <<cliOptions, inputKind, input, dirState, imageFiles, idx, outputPath>>
    /\ UNCHANGED <<resolveVars, mainVars, formatVars>>

\* convertDirectory, lines 124-140: create the output root, find the files,
\* return at once when there are none, normalize the format
ConvertDirectoryBegin ==
    /\ pc = "convertDirectory"
    /\ IF MkdirFails(dirState, Root)
       THEN Throws /\ UNCHANGED <<dirState, imageFiles, idx, summary>>
       ELSE /\ dirState' = MkdirDone(dirState, Root)
            /\ LET found == findImageFiles(Root, input, cliOptions.recursive)
               IN  IF found.threw
                   THEN Throws /\ UNCHANGED <<imageFiles, idx, summary>>
                   ELSE IF found.files = <<>>
                   THEN /\ summary' = << [total |-> 0, successful |-> 0, failed |-> 0,
                                          results |-> <<>>] >>
                        /\ pc' = "done"
                        /\ UNCHANGED <<imageFiles, idx, fatal>>
                   ELSE IF normalizeFormat(cliOptions.format).threw
                   THEN Throws /\ imageFiles' = found.files /\ UNCHANGED <<idx, summary>>
                   ELSE /\ imageFiles' = found.files
                        /\ idx' = 1
                        /\ pc' = "loop"
                        /\ UNCHANGED <<summary, fatal>>
    /\ UNCHANGED <<cliOptions, inputKind, input, outFiles, results, processCalls,
                   outputPath>>
    /\ UNCHANGED <<resolveVars, mainVars, formatVars>>

\* CheckExists without the continue: the failure is recorded and the file is
\* processed all the same
CheckExists_NoContinue ==
    /\ pc = "loop"
    /\ idx <= Len(imageFiles)
    /\ LET inputPath == imageFiles[idx]
           out == generateOutputPath(inputPath, normalizeFormat(cliOptions.format).value)
       IN  /\ outputPath' = out
           /\ IF ~cliOptions.overwrite /\ Exists(outFiles, out)
              THEN /\ results' = Append(results, Failure(inputPath, out, AlreadyExists))
                   /\ pc' = "mkdir"
                   /\ UNCHANGED idx
              ELSE /\ pc' = "mkdir"
                   /\ UNCHANGED <<results, idx>>
    /\ UNCHANGED <<cliOptions, inputKind, input, dirState, outFiles, imageFiles,
                   summary, processCalls, fatal>>
    /\ UNCHANGED <<resolveVars, mainVars, formatVars>>

\* CheckExists with the overwrite check made against the files that were
\* there when the batch began
CheckExists_OncePerBatch ==
    /\ pc = "loop"
    /\ idx <= Len(imageFiles)
    /\ LET inputPath == imageFiles[idx]
           out == generateOutputPath(inputPath, normalizeFormat(cliOptions.format).value)
       IN  /\ outputPath' = out
           /\ IF ~cliOptions.overwrite /\ outFiles[out].state = "old"
              THEN /\ results' = Append(results, Failure(inputPath, out, AlreadyExists))
                   /\ idx' = idx + 1
                   /\ pc' = "loop"
              ELSE /\ pc' = "mkdir"
                   /\ UNCHANGED <<results, idx>>
    /\ UNCHANGED <<cliOptions, inputKind, input, dirState, outFiles, imageFiles,
                   summary, processCalls, fatal>>
    /\ UNCHANGED <<resolveVars, mainVars, formatVars>>

\* convertDirectory, lines 142-160: the next file's output path and its
\* overwrite check
CheckExists ==
    /\ pc = "loop"
    /\ idx <= Len(imageFiles)
    /\ LET inputPath == imageFiles[idx]
           out == generateOutputPath(inputPath, normalizeFormat(cliOptions.format).value)
       IN  /\ outputPath' = out
           /\ IF ~cliOptions.overwrite /\ Exists(outFiles, out)
              THEN /\ results' = Append(results, Failure(inputPath, out, AlreadyExists))
                   /\ idx' = idx + 1
                   /\ pc' = "loop"
              ELSE /\ pc' = "mkdir"
                   /\ UNCHANGED <<results, idx>>
    /\ UNCHANGED <<cliOptions, inputKind, input, dirState, outFiles, imageFiles,
                   summary, processCalls, fatal>>
    /\ UNCHANGED <<resolveVars, mainVars, formatVars>>

\* convertDirectory, lines 162-164: create the output sub-directory
MkdirSubDir ==
    /\ pc = "mkdir"
    /\ IF MkdirFails(dirState, outputPath.dir)
       THEN Throws /\ UNCHANGED dirState
       ELSE /\ dirState' = MkdirDone(dirState, outputPath.dir)
            /\ pc' = "process"
            /\ UNCHANGED fatal
    /\ UNCHANGED <<cliOptions, inputKind, input, outFiles, imageFiles, idx, results,
                   summary, processCalls, outputPath>>
    /\ UNCHANGED <<resolveVars, mainVars, formatVars>>

\* convertDirectory, lines 166-179: process the file and record its result
ProcessImage ==
    /\ pc = "process"
    /\ \E outcome \in ProcessOutcomes :
         LET r == processImage(imageFiles[idx], outputPath,
                               normalizeFormat(cliOptions.format).value,
                               outFiles, outcome)
         IN  /\ processCalls' = Append(processCalls, imageFiles[idx])
             /\ outFiles' = r.files
             /\ results' = Append(results, r.result)
    /\ idx' = idx + 1
    /\ pc' = "loop"
    /\ UNCHANGED <<cliOptions, inputKind, input, dirState, imageFiles, summary,
                   fatal, outputPath>>
    /\ UNCHANGED <<resolveVars, mainVars, formatVars>>

\* convertDirectory, lines 182-190: every file was handled
ReturnSummary ==
    /\ pc = "loop"
    /\ idx > Len(imageFiles)
    /\ summary' = <<Summarize(results)>>
    /\ pc' = "done"
    /\ UNCHANGED <<cliOptions, inputKind, input, dirState, outFiles, imageFiles, idx,
                   results, processCalls, fatal, outputPath>>
    /\ UNCHANGED <<resolveVars, mainVars, formatVars>>

(***************************************************************************)
(* The format functions of src/src/config.ts applied to one string.        *)
(***************************************************************************)
DEFAULT_QUALITY == 80

QUALITY_SUPPORTED_FORMATS == {Jpg, Jpeg, Webp, Avif}

\* an options object with no property
NoOptions == [k \in {} |-> 0]

\* formatSupportsQuality answering for the formats sharp can write
formatSupportsQuality_Writable(f) == f \in SUPPORTED_OUTPUT_FORMATS

formatSupportsQuality(f) == f \in QUALITY_SUPPORTED_FORMATS

\* the type ImageFormat (src/src/index.ts:241-251)
ImageFormat == {Jpg, Jpeg, Png, Webp, Gif, Tiff, Bmp, Avif, Heic, Heif}

\* the upper-case letter of a lower-case one
toUpperCaseChar(c) ==
    IF \E k \in 1..Len(LowerCase) : LowerCase[k] = c
    THEN UpperCase[CHOOSE k \in 1..Len(LowerCase) : LowerCase[k] = c]
    ELSE c

\* every spelling of the lower-case string s in upper- and lower-case letters
Spellings(s) ==
    {t \in [1..Len(s) -> {s[i] : i \in 1..Len(s)} \cup {toUpperCaseChar(s[i]) : i \in 1..Len(s)}] :
        \A i \in 1..Len(s) : t[i] \in {s[i], toUpperCaseChar(s[i])}}

\* the strings the format functions are applied to
FormatStrings == UNION {Spellings(s) : s \in ImageFormat \cup {Tif, Txt, <<>>}}

\* the normalizeFormat call of a caller
Normalize ==
    /\ fpc = "normalize"
    /\ normalizeResult' = normalizeFormat(fmt)
    /\ fpc' = "again"
    /\ UNCHANGED <<fmt, renormalizeResult, supportsQuality, quality, toFormatCall>>
    /\ UNCHANGED <<resolveVars, batchVars, mainVars>>

\* normalizeFormat applied to its own result, when it returned one
NormalizeAgain ==
    /\ fpc = "again"
    /\ renormalizeResult' = IF normalizeResult.threw THEN normalizeResult
                       ELSE normalizeFormat(normalizeResult.value)
    /\ fpc' = "quality"
    /\ UNCHANGED <<fmt, normalizeResult, supportsQuality, quality, toFormatCall>>
    /\ UNCHANGED <<resolveVars, batchVars, mainVars>>

\* the formatSupportsQuality call of a caller
SupportsQuality ==
    /\ fpc = "quality"
    /\ supportsQuality' = <<formatSupportsQuality(fmt)>>
    /\ fpc' = "toFormat"
    /\ UNCHANGED <<fmt, normalizeResult, renormalizeResult, quality, toFormatCall>>
    /\ UNCHANGED <<resolveVars, batchVars, mainVars>>

\* processImage's encoder call with the quality whenever one is present
toFormat_AlwaysQuality(format, q) ==
    LET normal == normalizeFormat(format)
        sharpFormat == IF normal.value = Jpeg THEN Jpg ELSE normal.value
    IN  IF normal.threw THEN <<>>
        ELSE IF q # <<>>
        THEN << [format |-> sharpFormat, options |-> [quality |-> q[1]]] >>
        ELSE << [format |-> sharpFormat, options |-> NoOptions] >>

\* processImage, src/src/imageProcessor.ts:116-126: the arguments
\* pipeline.toFormat is called with for options.format = format and
\* options.quality = q; <<>> when normalizeFormat throws and nothing is encoded
toFormat(format, q) ==
    LET normal == normalizeFormat(format)
        sharpFormat == IF normal.value = Jpeg THEN Jpg ELSE normal.value
    IN  IF normal.threw THEN <<>>
        ELSE IF formatSupportsQuality(normal.value) /\ q # <<>>
        THEN << [format |-> sharpFormat, options |-> [quality |-> q[1]]] >>
        ELSE << [format |-> sharpFormat, options |-> NoOptions] >>

\* the encoder call of processImage
ToFormat ==
    /\ fpc = "toFormat"
    /\ toFormatCall' = toFormat(fmt, quality)
    /\ fpc' = "done"
    /\ UNCHANGED <<fmt, normalizeResult, renormalizeResult, supportsQuality, quality>>
    /\ UNCHANGED <<resolveVars, batchVars, mainVars>>

\* the values of options.quality
QualityValues == {<<>>, <<1>>, <<DEFAULT_QUALITY>>, <<100>>}

NotCalled == [threw |-> FALSE, value |-> <<>>]

\* the format functions are not running
FormatIdle ==
    /\ fmt = <<>>
    /\ normalizeResult = NotCalled
    /\ renormalizeResult = NotCalled
    /\ supportsQuality = <<>>
    /\ quality = <<>>
    /\ toFormatCall = <<>>
    /\ fpc = "idle"

(***************************************************************************)
(* The command line (src/unnamed/part_000:387-515).  An options object is  *)
(* a function from the names of the properties it has to their values; a   *)
(* property that is undefined is not in its DOMAIN.  Numeric options are   *)
(* positive integers.  The run of convertImages that main starts is the    *)
(* specification Spec; main's steps up to that call are modelled here.     *)
(***************************************************************************)
NumberOptions == {"width", "height", "minWidth", "minHeight", "maxWidth", "maxHeight",
                  "quality"}
FlagOptions == {"allowUpscale", "recursive", "overwrite", "dryRun", "verbose", "silent"}

RequiredMissing == "error: required option '-f, --format <format>' not specified"
ConfigError == "Error: Failed to load config file"
FormatError == "Error: Unsupported format"
QualityError == "Error: Quality must be between 1 and 100"
MinWidthError == "Error: min-width cannot be greater than max-width"
MinHeightError == "Error: min-height cannot be greater than max-height"

\* process.exit(code) after console.error(message)
Exit(code, message) ==
    /\ mainPc' = "exited"
    /\ exitCode' = <<code>>
    /\ stderr' = message

\* program.opts() (lines 387-433): the options given, and false for every
\* flag that was not (each flag is declared with the default false)
programOpts(args) ==
    [k \in DOMAIN args \cup FlagOptions |-> IF k \in DOMAIN args THEN args[k] ELSE FALSE]

\* commander's parse: a missing required option ends the process
ParseArgs ==
    /\ mainPc = "parse"
    /\ IF "format" \notin DOMAIN argv
       THEN Exit(1, RequiredMissing) /\ UNCHANGED opts
       ELSE /\ opts' = programOpts(argv)
            /\ mainPc' = "merge"
            /\ UNCHANGED <<exitCode, stderr>>
    /\ UNCHANGED <<argv, config, merged>>
    /\ UNCHANGED <<resolveVars, batchVars, formatVars>>

\* a ?? b ?? ... on property k of the objects os, in order; the default d is
\* <<>> (the property stays undefined) or <<value>>
RECURSIVE Coalesce(_, _, _)
Coalesce(os, k, d) ==
    IF os = <<>> THEN d
    ELSE IF k \in DOMAIN Head(os) THEN <<Head(os)[k]>>
    ELSE Coalesce(Tail(os), k, d)

\* the object literal of lines 445-462
MergeOptions(o, configOptions) ==
    LET value(k) ==
            IF k = "format" THEN <<normalizeFormat(o.format).value>>
            ELSE IF k = "quality" THEN Coalesce(<<o, configOptions>>, k, <<DEFAULT_QUALITY>>)
            ELSE IF k \in FlagOptions THEN Coalesce(<<o, configOptions>>, k, <<FALSE>>)
            ELSE Coalesce(<<o, configOptions>>, k, <<>>)
        present == {k \in {"format"} \cup NumberOptions \cup FlagOptions : value(k) # <<>>}
    IN  [k \in present |-> value(k)[1]]

\* lines 435-468: load the configuration file, normalize the format, merge
LoadAndMerge ==
    /\ mainPc = "merge"
    /\ IF config.given /\ ~config.readable
       THEN Exit(1, ConfigError) /\ UNCHANGED merged
       ELSE IF normalizeFormat(opts.format).threw
       THEN Exit(1, FormatError) /\ UNCHANGED merged
       ELSE /\ merged' = MergeOptions(opts, IF config.given THEN config.json ELSE NoOptions)
            /\ mainPc' = "validate"
            /\ UNCHANGED <<exitCode, stderr>>
    /\ UNCHANGED <<argv, config, opts>>
    /\ UNCHANGED <<resolveVars, batchVars, formatVars>>

\* JavaScript truthiness of the numeric property k of o
Truthy(o, k) == k \in DOMAIN o /\ o[k] # 0

\* ValidateOptions without the height check
ValidateOptions_WidthOnly ==
    /\ mainPc = "validate"
    /\ IF merged.quality < 1 \/ merged.quality > 100
       THEN Exit(1, QualityError)
       ELSE IF /\ Truthy(merged, "minWidth") /\ Truthy(merged, "maxWidth")
               /\ merged.minWidth > merged.maxWidth
       THEN Exit(1, MinWidthError)
       ELSE /\ mainPc' = "run"
            /\ UNCHANGED <<exitCode, stderr>>
    /\ UNCHANGED <<argv, config, opts, merged>>
    /\ UNCHANGED <<resolveVars, batchVars, formatVars>>

\* lines 470-490: the quality range and the min / max constraints
ValidateOptions ==
    /\ mainPc = "validate"
    /\ IF merged.quality < 1 \/ merged.quality > 100
       THEN Exit(1, QualityError)
       ELSE IF /\ Truthy(merged, "minWidth") /\ Truthy(merged, "maxWidth")
               /\ merged.minWidth > merged.maxWidth
       THEN Exit(1, MinWidthError)
       ELSE IF /\ Truthy(merged, "minHeight") /\ Truthy(merged, "maxHeight")
               /\ merged.minHeight > merged.maxHeight
       THEN Exit(1, MinHeightError)
       ELSE /\ mainPc' = "run"
            /\ UNCHANGED <<exitCode, stderr>>
    /\ UNCHANGED <<argv, config, opts, merged>>
    /\ UNCHANGED <<resolveVars, batchVars, formatVars>>

\* lines 492-508: a dry run prints what would be processed and returns
DryRun ==
    /\ mainPc = "run"
    /\ merged.dryRun
    /\ mainPc' = "returned"
    /\ UNCHANGED <<argv, config, opts, merged, exitCode, stderr>>
    /\ UNCHANGED <<resolveVars, batchVars, formatVars>>

\* line 515: convertImages(cliOptions) is called; the run goes on as Spec does
\* from pc = "start"
CallConvertImages ==
    /\ mainPc = "run"
    /\ ~merged.dryRun
    /\ mainPc' = "convertImages"
    /\ pc' = "start"
    /\ cliOptions' = [format |-> merged.format, overwrite |-> merged.overwrite,
                      recursive |-> merged.recursive, output |-> "dir"]
    /\ UNCHANGED <<inputKind, input, dirState, outFiles, imageFiles, idx, results,
                   summary, processCalls, outputPath, fatal>>
    /\ UNCHANGED <<argv, config, opts, merged, exitCode, stderr>>
    /\ UNCHANGED <<resolveVars, formatVars>>

\* main is not running
MainIdle ==
    /\ argv = NoOptions
    /\ config = [given |-> FALSE, readable |-> TRUE, json |-> NoOptions]
    /\ opts = NoOptions
    /\ merged = NoOptions
    /\ mainPc = "idle"
    /\ exitCode = <<>>
    /\ stderr = ""

(***************************************************************************)
(* The inputs of a run.                                                    *)
(***************************************************************************)
\* the format strings a run is started with
BatchFormats == {<<"J", "P", "G">>, Heic}

\* names of the files the input directory may hold
TopNames == {[base |-> "a", ext |-> Png], [base |-> "a", ext |-> <<"J", "P", "G">>],
             [base |-> "n", ext |-> Txt]}
SubNames == {[base |-> "b", ext |-> Png]}

FileEntries(names) == {[kind |-> "file", name |-> n] : n \in names}

\* the listings of at most MaxEntries entries without a repeated name
Listings(S) ==
    {s \in UNION {[1..k -> S] : k \in 0..MaxEntries} :
        \A i, j \in DOMAIN s :
            i # j => (s[i] # s[j] /\ ~(s[i].kind = "dir" /\ s[j].kind = "dir"))}

SubDirectories ==
    {[readable |-> TRUE, entries |-> s] : s \in Listings(FileEntries(SubNames))}
        \cup {[readable |-> FALSE, entries |-> <<>>]}

InputDirectories ==
    {[readable |-> TRUE, entries |-> s] :
        s \in Listings(FileEntries(TopNames)
                       \cup {[kind |-> "dir", name |-> SubDir, dir |-> d] :
                                d \in SubDirectories})}
        \cup {[readable |-> FALSE, entries |-> <<>>]}

\* the files --input may name
InputFiles == {[dir |-> Root, base |-> n.base, ext |-> n.ext] : n \in TopNames}

\* the output paths a run can reach
OutputPaths ==
    {generateOutputPath(f, Jpeg) : f \in InputFiles}
        \cup {[dir |-> SubDir, base |-> n.base, ext |-> Jpeg] : n \in SubNames}
        \cup {UserOutputFile}

\* the resolver is not running
ResolveIdle ==
    /\ originalWidth = 1
    /\ originalHeight = 1
    /\ options = [width |-> 0, height |-> 0, minWidth |-> 0, minHeight |-> 0,
                  maxWidth |-> 0, maxHeight |-> 0, allowUpscale |-> FALSE]
    /\ resolved = FALSE
    /\ width = 0
    /\ height = 0

Init ==
    /\ ResolveIdle
    /\ MainIdle
    /\ FormatIdle
    /\ cliOptions \in [format : BatchFormats, overwrite : BOOLEAN,
                       recursive : BOOLEAN, output : {"dir", "file"}]
    /\ inputKind \in {"missing", "file", "dir"}
    /\ input \in IF inputKind = "dir" THEN InputDirectories
                 ELSE IF inputKind = "file" THEN InputFiles
                 ELSE {NoFile}
    /\ dirState \in [OutDirs -> {"missing", "exists", "blocked"}]
    /\ outFiles \in [OutputPaths -> {Absent, Old}]
    \* a directory below a missing or blocked root is missing; a file is in an
    \* existing directory
    /\ dirState[Root] # "exists" => dirState[SubDir] = "missing"
    /\ \A p \in OutputPaths : outFiles[p] = Old => dirState[p.dir] = "exists"
    \* a directory is converted into a directory; --output names a directory
    \* only when it exists
    /\ inputKind = "dir" => cliOptions.output = "dir"
    /\ (inputKind = "file" /\ cliOptions.output = "dir") => dirState[Root] = "exists"
    /\ pc = "start"
    /\ imageFiles = <<>>
    /\ idx = 0
    /\ results = <<>>
    /\ summary = <<>>
    /\ processCalls = <<>>
    /\ fatal = NoError
    /\ outputPath = NoFile

Next ==
    \/ ConvertImages
    \/ SingleMkdir
    \/ SingleCheckExists
    \/ SingleProcess
    \/ ConvertDirectoryBegin
    \/ CheckExists
    \/ MkdirSubDir
    \/ ProcessImage
    \/ ReturnSummary

Spec == Init /\ [][Next]_vars

\* the walker is not running
BatchIdle ==
    /\ cliOptions = [format |-> Jpeg, overwrite |-> FALSE, recursive |-> FALSE,
                     output |-> "dir"]
    /\ inputKind = "missing"
    /\ input = NoFile
    /\ dirState = [d \in OutDirs |-> "missing"]
    /\ outFiles = [p \in OutputPaths |-> Absent]
    /\ pc = "idle"
    /\ imageFiles = <<>>
    /\ idx = 0
    /\ results = <<>>
    /\ summary = <<>>
    /\ processCalls = <<>>
    /\ fatal = NoError
    /\ outputPath = NoFile

(***************************************************************************)
(* The resolver's specification: every bounded input, then the call.       *)
(***************************************************************************)
OptionSets ==
    [width : 0..MaxTarget, height : 0..MaxTarget,
     minWidth : 0..MaxMin, minHeight : 0..MaxMin,
     maxWidth : 0..MaxMax, maxHeight : 0..MaxMax,
     allowUpscale : BOOLEAN]

ResolveInit ==
    /\ BatchIdle
    /\ MainIdle
    /\ FormatIdle
    /\ originalWidth \in 1..MaxDim
    /\ originalHeight \in 1..MaxDim
    /\ options \in OptionSets
    /\ resolved = FALSE
    /\ width = 0
    /\ height = 0

Resolve ==
    /\ ~resolved
    /\ LET d == calculateTargetDimensions(originalWidth, originalHeight, options)
       IN  /\ width' = d.w
           /\ height' = d.h
    /\ resolved' = TRUE
    /\ UNCHANGED <<originalWidth, originalHeight, options>>
    /\ UNCHANGED <<batchVars, mainVars, formatVars>>

ResolveNext == Resolve

ResolveSpec == ResolveInit /\ [][ResolveNext]_vars

(***************************************************************************)
(* The command line's specification: every bounded command line and        *)
(* configuration file, then main up to its call of convertImages.          *)
(***************************************************************************)
\* an option given on the command line or in the configuration file
Slots ==
    {[src |-> s, opt |-> k, val |-> v] :
        s \in {"cli", "config"}, k \in NumberOptions \ {"quality"}, v \in 1..MaxOpt}
    \cup {[src |-> s, opt |-> "quality", val |-> v] :
            s \in {"cli", "config"}, v \in {100, 101}}
    \cup {[src |-> "cli", opt |-> k, val |-> TRUE] : k \in FlagOptions}
    \cup {[src |-> "config", opt |-> k, val |-> b] : k \in FlagOptions, b \in BOOLEAN}

NoSlot == [src |-> "none", opt |-> "", val |-> 0]

\* the options object holding the first i of the given options that come
\* from src; a later option replaces an earlier one of the same name
RECURSIVE Given(_, _, _)
Given(given, src, i) ==
    IF i = 0 THEN NoOptions
    ELSE LET s == given[i]
             rest == Given(given, src, i - 1)
         IN  IF s.src = src
             THEN [k \in DOMAIN rest \cup {s.opt} |-> IF k = s.opt THEN s.val ELSE rest[k]]
             ELSE rest

\* the options object o with the format f, when a format is given
WithFormat(o, f) ==
    IF f = <<>> THEN o
    ELSE [k \in DOMAIN o \cup {"format"} |-> IF k = "format" THEN f ELSE o[k]]

\* the values of --format, and of "format" in the configuration file; <<>>
\* stands for a format that is not given
CliFormats == {<<>>, <<"J", "P", "G">>, Heic}
ConfigFormats == {<<>>, Webp}

MainInit ==
    /\ ResolveIdle
    /\ BatchIdle
    /\ FormatIdle
    /\ \E given \in [1..MaxGiven -> Slots \cup {NoSlot}],
          f \in CliFormats, cf \in ConfigFormats :
         /\ argv = WithFormat(Given(given, "cli", MaxGiven), f)
         /\ \E g \in BOOLEAN, r \in BOOLEAN :
              /\ config = [given |-> g, readable |-> r,
                           json |-> WithFormat(Given(given, "config", MaxGiven), cf)]
              \* a file that is not given or cannot be read has no content
              /\ (DOMAIN config.json # {}) => (g /\ r)
              /\ ~g => r
    /\ opts = NoOptions
    /\ merged = NoOptions
    /\ mainPc = "parse"
    /\ exitCode = <<>>
    /\ stderr = ""

MainNext ==
    \/ ParseArgs
    \/ LoadAndMerge
    \/ ValidateOptions
    \/ DryRun
    \/ CallConvertImages

MainSpec == MainInit /\ [][MainNext]_vars

(***************************************************************************)
(* The format functions' specification: every bounded string, then the     *)
(* calls.                                                                  *)
(***************************************************************************)
FormatInit ==
    /\ ResolveIdle
    /\ BatchIdle
    /\ MainIdle
    /\ fmt \in FormatStrings
    /\ normalizeResult = NotCalled
    /\ renormalizeResult = NotCalled
    /\ supportsQuality = <<>>
    /\ quality \in QualityValues
    /\ toFormatCall = <<>>
    /\ fpc = "normalize"

FormatNext ==
    \/ Normalize
    \/ NormalizeAgain
    \/ SupportsQuality
    \/ ToFormat

FormatSpec == FormatInit /\ [][FormatNext]_vars

(***************************************************************************)
(* Properties of the resolver, checked under ResolveSpec.                  *)
(***************************************************************************)
\* a <= b on JavaScript numbers
LessEq(a, b) == a # NaN /\ b # NaN /\ ~Less(b, a)

\* the invariant validated before resolution: min <= max on each axis
WellFormed(o) ==
    /\ (o.minWidth # 0 /\ o.maxWidth # 0) => o.minWidth <= o.maxWidth
    /\ (o.minHeight # 0 /\ o.maxHeight # 0) => o.minHeight <= o.maxHeight

NoMinMax(o) ==
    o.minWidth = 0 /\ o.minHeight = 0 /\ o.maxWidth = 0 /\ o.maxHeight = 0

\* |a * den - b * num| <= den : a is within one pixel of b * num / den
WithinOnePixel(a, b, num, den) ==
    /\ IsFinite(a) /\ IsFinite(b)
    /\ a * den - b * num <= den
    /\ b * num - a * den <= den

\* the size keeps the aspect ratio W:H within one pixel on one of the axes
KeepsAspect(w, h, W, H) ==
    WithinOnePixel(h, w, H, W) \/ WithinOnePixel(w, h, W, H)

\* C1: whatever the original size, the constraints and allowUpscale, the
\* returned size never exceeds a max bound that is set.
C1_MaxNeverExceeded ==
    resolved =>
        /\ options.maxWidth # 0 => LessEq(width, options.maxWidth)
        /\ options.maxHeight # 0 => LessEq(height, options.maxHeight)

\* C1 witness: upscaling is allowed, a minimum pushed the size beyond both
\* maxima, and both maximum stages brought it back.
C1_Witness ==
    /\ resolved /\ options.allowUpscale
    /\ options.maxWidth # 0 /\ options.maxHeight # 0
    /\ LET m == AfterMinStages(originalWidth, originalHeight, options)
       IN  /\ Less(options.maxWidth, m.w)
           /\ Less(options.maxHeight, MaxWidthStage(m, options).h)
    /\ height = options.maxHeight

\* C2: with both targets and no min/max constraint the size fits the
\* requested box and one of its dimensions equals its target.
C2_FitsBox ==
    (resolved /\ options.width # 0 /\ options.height # 0 /\ NoMinMax(options)) =>
        /\ LessEq(width, options.width)
        /\ LessEq(height, options.height)
        /\ (width = options.width \/ height = options.height)

\* C2 witness: a box of another shape than the image; one axis is strictly
\* inside the box after scaling.
C2_Witness ==
    /\ resolved /\ options.width # 0 /\ options.height # 0 /\ NoMinMax(options)
    /\ width = options.width /\ height < options.height
    /\ width # originalWidth

\* C3: with exactly one target and no min/max constraint, that axis equals
\* the target and the other is original * target / original-same-axis,
\* rounded half up (the integer r with 2r <= 2x + 1 < 2(r + 1)).
C3_OneTarget ==
    (resolved /\ NoMinMax(options)) =>
        /\ (options.width # 0 /\ options.height = 0) =>
              /\ width = options.width
              /\ 2 * originalWidth * height
                    <= 2 * originalHeight * options.width + originalWidth
              /\ 2 * originalHeight * options.width + originalWidth
                    < 2 * originalWidth * (height + 1)
        /\ (options.height # 0 /\ options.width = 0) =>
              /\ height = options.height
              /\ 2 * originalHeight * width
                    <= 2 * originalWidth * options.height + originalHeight
              /\ 2 * originalWidth * options.height + originalHeight
                    < 2 * originalHeight * (width + 1)

\* C3 witness: only the width is given and the proportional height falls
\* exactly between two integers, so the rounding direction shows.
C3_Witness ==
    /\ resolved /\ NoMinMax(options)
    /\ options.width # 0 /\ options.height = 0
    /\ 2 * originalHeight * options.width = (2 * height - 1) * originalWidth

\* C4: on well-formed input the returned width and height are integers >= 1.
C4_PositiveResult ==
    (resolved /\ WellFormed(options)) =>
        /\ IsFinite(width) /\ width >= 1
        /\ IsFinite(height) /\ height >= 1

\* C5: with allowUpscale and only min constraints, a size raised by a min
\* constraint keeps the original aspect ratio within one pixel.
C5_MinUpscaleKeepsAspect ==
    ( /\ resolved /\ options.allowUpscale
      /\ options.width = 0 /\ options.height = 0
      /\ options.maxWidth = 0 /\ options.maxHeight = 0
      /\ (width # originalWidth \/ height # originalHeight) ) =>
        KeepsAspect(width, height, originalWidth, originalHeight)

\* C6: on well-formed input, whatever the constraints and allowUpscale, the
\* returned size keeps the original aspect ratio within one pixel.
C6_AlwaysKeepsAspect ==
    (resolved /\ WellFormed(options)) =>
        KeepsAspect(width, height, originalWidth, originalHeight)

BoundsMet(w, h, o) ==
    /\ o.minWidth # 0 => w >= o.minWidth
    /\ o.minHeight # 0 => h >= o.minHeight
    /\ o.maxWidth # 0 => w <= o.maxWidth
    /\ o.maxHeight # 0 => h <= o.maxHeight

\* C8: with no target and every bound that is set already met by the
\* original size, the original size is returned unchanged.
C8_NoConstraintIdentity ==
    ( /\ resolved /\ options.width = 0 /\ options.height = 0
      /\ BoundsMet(originalWidth, originalHeight, options) ) =>
        (width = originalWidth /\ height = originalHeight)

\* C8 witness: a non-square original with a minimum and a maximum set on
\* each axis, all four met, has been resolved.
C8_Witness ==
    /\ resolved /\ options.width = 0 /\ options.height = 0
    /\ options.minWidth # 0 /\ options.minHeight # 0
    /\ options.maxWidth # 0 /\ options.maxHeight # 0
    /\ BoundsMet(originalWidth, originalHeight, options)
    /\ originalWidth < originalHeight
    /\ width = originalWidth /\ height = originalHeight

C20_NoUpscaleWhenDisallowed ==
    (resolved /\ ~options.allowUpscale) =>
        /\ LessEq(width, originalWidth)
        /\ LessEq(height, originalHeight)

(***************************************************************************)
(* Properties of the walker, checked under Spec.                           *)
(***************************************************************************)
\* the file whose turn has come, and the output path it maps to
AtTurn ==
    \/ pc = "loop" /\ idx <= Len(imageFiles)
    \/ pc = "singleCheck"

TurnInput == IF pc = "loop" THEN imageFiles[idx] ELSE input

TurnOutput ==
    IF pc = "loop"
    THEN generateOutputPath(imageFiles[idx], normalizeFormat(cliOptions.format).value)
    ELSE outputPath

\* the inputs recorded as Failure with the 'already exists' message
Skipped(rs) ==
    {rs[i].inputPath : i \in {k \in 1..Len(rs) :
        ~rs[k].success /\ rs[k].error = AlreadyExists}}

\* C9: with overwrite not permitted, a file whose output path exists when
\* its turn comes is recorded as a Failure with the fixed message in that
\* step, which leaves the output files and the processImage calls as they
\* were and moves past the file; no later step invokes processImage for a
\* file so recorded, and no step changes a file that already exists.  In
\* convertDirectory and in convertSingleImage.
C9_ExistingOutputSkipped ==
    [][ ~cliOptions.overwrite =>
          /\ (AtTurn /\ Exists(outFiles, TurnOutput)) =>
                /\ results' = Append(results, Failure(TurnInput, TurnOutput, AlreadyExists))
                /\ processCalls' = processCalls
                /\ outFiles' = outFiles
                /\ pc' \in {"loop", "done"}
                /\ pc = "loop" => idx' = idx + 1
          /\ \A i \in 1..Len(processCalls') : processCalls'[i] \notin Skipped(results')
          /\ \A p \in OutputPaths : Exists(outFiles, p) => outFiles'[p] = outFiles[p]
      ]_vars

\* C9 witness: in a directory run without overwrite the first file found an
\* existing output and was recorded as skipped, a later file was converted,
\* and the existing output is as it was.
C9_Witness ==
    /\ inputKind = "dir" /\ ~cliOptions.overwrite /\ pc = "done"
    /\ Len(results) = 2
    /\ ~results[1].success /\ results[1].error = AlreadyExists
    /\ outFiles[results[1].outputPath] = Old
    /\ results[2].success
    /\ processCalls = <<results[2].inputPath>>

\* C10: once convertDirectory handles its files, no failure of a per-file
\* step aborts the batch: the run does not end with an error, and when it
\* ends every discovered file has exactly one result, in order.
C10_BatchNeverAborts ==
    idx >= 1 =>
        /\ pc # "thrown"
        /\ pc = "done" =>
              /\ Len(results) = Len(imageFiles)
              /\ \A i \in 1..Len(results) : results[i].inputPath = imageFiles[i]

\* the single-file path: convertSingleImage has been entered
SingleEntered == inputKind = "file" /\ outputPath # NoFile

\* a ProcessResult as the specification describes it: a Success with both
\* byte sizes or a Failure with an error message
WellFormedResult(r) ==
    IF r.success
    THEN DOMAIN r = {"inputPath", "outputPath", "success", "originalSize", "newSize"}
    ELSE DOMAIN r = {"inputPath", "outputPath", "success", "error"} /\ r.error # NoError

\* C11: converting one image never lets an error escape to the caller: once
\* convertSingleImage is entered the run does not end with a thrown error,
\* and the result it returns is a Failure with a message or a Success with
\* both byte sizes.
C11_NoErrorEscapes ==
    SingleEntered =>
        /\ pc # "thrown"
        /\ pc = "done" => (Len(results) = 1 /\ WellFormedResult(results[1]))

\* the inputs in file-discovery order: the files findImageFiles returned, or
\* the one input file
Discovered == IF inputKind = "dir" THEN imageFiles ELSE <<input>>

\* C12: every ProcessingSummary that is returned has total = length of
\* results, successful = number of results with success = true, failed =
\* total - successful, and one result per discovered file in discovery order.
C12_SummaryConsistent ==
    summary # <<>> =>
        LET s == summary[1]
        IN  /\ s.total = Len(s.results)
            /\ s.successful = Cardinality({i \in 1..Len(s.results) : s.results[i].success})
            /\ s.failed = s.total - s.successful
            /\ Len(s.results) = Len(Discovered)
            /\ \A i \in 1..Len(s.results) : s.results[i].inputPath = Discovered[i]

\* C12 witness: a directory run returned a summary of two files, the first
\* failed in processImage and the second converted.
C12_Witness ==
    /\ summary # <<>> /\ inputKind = "dir"
    /\ summary[1].total = 2 /\ summary[1].successful = 1 /\ summary[1].failed = 1
    /\ ~summary[1].results[1].success
    /\ summary[1].results[1].error # AlreadyExists
    /\ summary[1].results[2].success

\* C14: whenever a run ends with a fatal error, no image file has been read
\* or written in that run: processImage was never invoked and no output
\* file was written, in whole or in part.
C14_FatalBeforeAnyFile ==
    pc = "thrown" =>
        /\ processCalls = <<>>
        /\ \A p \in OutputPaths : outFiles[p].state \in {"absent", "old"}

\* the output path p holds what an input of this run wrote, in whole or in part
WrittenThisRun(files, p) == files[p].state \in {"written", "partial"}

\* C18: with overwrite not permitted the check is made per file against the
\* files as they are at that file's turn: a file whose output path an
\* earlier input of the run has written is recorded as a Failure with the
\* 'already exists' message without processImage being invoked, and no step
\* changes an output that was written in this run, so each output path is
\* written by at most one input.
C18_PerFileOverwriteCheck ==
    [][ ~cliOptions.overwrite =>
          /\ (pc = "loop" /\ idx <= Len(imageFiles) /\ WrittenThisRun(outFiles, TurnOutput)) =>
                /\ results' = Append(results, Failure(TurnInput, TurnOutput, AlreadyExists))
                /\ processCalls' = processCalls
          /\ \A p \in OutputPaths :
                WrittenThisRun(outFiles, p) => outFiles'[p] = outFiles[p]
      ]_vars

\* C18 witness: two inputs of a directory map to the same output path; the
\* first was converted and wrote it, the second was recorded as 'already
\* exists', and the output is still the first one's.
C18_Witness ==
    /\ inputKind = "dir" /\ ~cliOptions.overwrite /\ pc = "done"
    /\ Len(results) = 2
    /\ results[1].inputPath # results[2].inputPath
    /\ results[1].outputPath = results[2].outputPath
    /\ results[1].success
    /\ ~results[2].success /\ results[2].error = AlreadyExists
    /\ outFiles[results[1].outputPath] = Written(results[1].inputPath)
    /\ processCalls = <<results[1].inputPath>>

(***************************************************************************)
(* Properties of the command line, checked under MainSpec.                 *)
(***************************************************************************)
\* the options o were merged
Merged(o) == "format" \in DOMAIN o

\* both bounds of an axis are present and the minimum exceeds the maximum
MinExceedsMax(o) ==
    \/ {"minWidth", "maxWidth"} \subseteq DOMAIN o /\ o.minWidth > o.maxWidth
    \/ {"minHeight", "maxHeight"} \subseteq DOMAIN o /\ o.minHeight > o.maxHeight

\* no file of the input was read, no directory created and no output written
NothingTouched ==
    /\ processCalls = <<>>
    /\ imageFiles = <<>>
    /\ dirState = [d \in OutDirs |-> "missing"]
    /\ outFiles = [p \in OutputPaths |-> Absent]

\* C13: when the merged options have minWidth > maxWidth or minHeight >
\* maxHeight, validation ends the run with exit code 1 before convertImages
\* is called, with the constraint error when the quality is within 1..100,
\* and nothing of the file system was touched.
C13_InvalidConstraintsFailFast ==
    (Merged(merged) /\ MinExceedsMax(merged) /\ mainPc # "validate") =>
        /\ mainPc = "exited"
        /\ exitCode = <<1>>
        /\ merged.quality \in 1..100 => stderr \in {MinWidthError, MinHeightError}
        /\ pc = "idle"
        /\ NothingTouched

\* C13 witness: the command line gives a minimum height above the maximum
\* height of the configuration file, and the run ended with the min-height
\* error.
C13_Witness ==
    /\ Merged(merged) /\ MinExceedsMax(merged)
    /\ "minHeight" \in DOMAIN argv /\ "maxHeight" \in DOMAIN config.json
    /\ "maxHeight" \notin DOMAIN argv
    /\ mainPc = "exited" /\ exitCode = <<1>> /\ stderr = MinHeightError

\* the configuration file's options, when the file is given and readable
ConfigGiven == IF config.given /\ config.readable THEN config.json ELSE NoOptions

\* C17: for every option of the command line and the configuration file,
\* the effective value is the command line's when the option is given there,
\* otherwise the configuration file's, otherwise the default; a format given
\* in the configuration file alone is not reported as missing.
C17_CliThenConfigThenDefault ==
    /\ Merged(merged) =>
          /\ \A k \in NumberOptions \cup FlagOptions :
                IF k \in DOMAIN argv
                THEN k \in DOMAIN merged /\ merged[k] = argv[k]
                ELSE IF k \in DOMAIN ConfigGiven
                THEN k \in DOMAIN merged /\ merged[k] = ConfigGiven[k]
                ELSE IF k = "quality" THEN merged[k] = DEFAULT_QUALITY
                ELSE IF k \in FlagOptions THEN merged[k] = FALSE
                ELSE k \notin DOMAIN merged
          /\ merged.format = normalizeFormat(argv.format).value
    /\ "format" \in DOMAIN ConfigGiven => stderr # RequiredMissing

(***************************************************************************)
(* Properties of the format functions, checked under FormatSpec.           *)
(***************************************************************************)
\* s and t are the same string up to the case of their letters
SameIgnoringCase(s, t) ==
    /\ Len(s) = Len(t)
    /\ \A i \in 1..Len(s) : toLowerCase(<<s[i]>>) = toLowerCase(<<t[i]>>)

\* two calls of normalizeFormat ended the same way
SameOutcome(a, b) == a.threw = b.threw /\ (~a.threw => a.value = b.value)

\* the formats that can be written
Writable == {Jpeg, Jpg, Png, Webp, Gif, Tiff, Bmp, Avif}

\* C15: normalizeFormat is case-insensitive; it maps jpg and jpeg in any
\* letter case to jpeg; for every other string it returns the lower-cased
\* string when that is a writable format and throws otherwise (heic and
\* heif included); the result is never jpg; applied to its own result it
\* returns that result.
C15_NormalizeFormat ==
    fpc \in {"again", "quality", "toFormat", "done"} =>
        /\ \A t \in FormatStrings :
              SameIgnoringCase(fmt, t) => SameOutcome(normalizeFormat(t), normalizeResult)
        /\ toLowerCase(fmt) \in {Jpg, Jpeg} =>
              normalizeResult = [threw |-> FALSE, value |-> Jpeg]
        /\ (toLowerCase(fmt) \notin {Jpg, Jpeg} /\ toLowerCase(fmt) \in Writable) =>
              normalizeResult = [threw |-> FALSE, value |-> toLowerCase(fmt)]
        /\ toLowerCase(fmt) \notin Writable => normalizeResult.threw
        /\ toLowerCase(fmt) \in {Heic, Heif} => normalizeResult.threw
        /\ ~normalizeResult.threw => normalizeResult.value # Jpg
        /\ (fpc \in {"quality", "toFormat", "done"} /\ ~normalizeResult.threw) =>
              renormalizeResult = normalizeResult

\* C15 witness: jpg spelled in mixed case was normalized to jpeg, and jpeg
\* normalized again stayed jpeg.
C15_Witness ==
    /\ fpc = "quality"
    /\ fmt = <<"J", "p", "G">>
    /\ normalizeResult = [threw |-> FALSE, value |-> Jpeg]
    /\ renormalizeResult = normalizeResult

\* C16: on the formats of the enumeration, formatSupportsQuality is true
\* exactly for jpeg, webp and avif and the alias jpg, and false for png,
\* gif, tiff, bmp and the others (heic, heif).
C16_QualityCapable ==
    (fpc \in {"toFormat", "done"} /\ fmt \in ImageFormat) =>
        /\ fmt \in {Jpeg, Webp, Avif, Jpg} => supportsQuality = <<TRUE>>
        /\ fmt \in {Png, Gif, Tiff, Bmp, Heic, Heif} => supportsQuality = <<FALSE>>
        /\ fmt \in {Jpeg, Webp, Avif, Jpg, Png, Gif, Tiff, Bmp, Heic, Heif}

\* C16 witness: the alias jpg was asked about and is quality-capable.
C16_Witness ==
    /\ fpc = "done"
    /\ fmt = Jpg
    /\ supportsQuality = <<TRUE>>

\* the formats that take a quality, in their normalized spelling
QualityCapable == {Jpeg, Webp, Avif}

\* C21: processImage passes a quality to the encoder if and only if the
\* normalized format is quality-capable and options.quality is present, and
\* the quality passed is the one supplied; otherwise the encoder is called
\* with no quality; when the format is not writable nothing is encoded.
C21_QualityPassedIffCapable ==
    fpc = "done" =>
        IF normalizeResult.threw THEN toFormatCall = <<>>
        ELSE /\ Len(toFormatCall) = 1
             /\ ("quality" \in DOMAIN toFormatCall[1].options)
                   <=> (normalizeResult.value \in QualityCapable /\ quality # <<>>)
             /\ "quality" \in DOMAIN toFormatCall[1].options =>
                   toFormatCall[1].options.quality = quality[1]
             /\ DOMAIN toFormatCall[1].options \subseteq {"quality"}

\* C21 witness: png with a quality supplied was encoded with no quality.
C21_Witness ==
    /\ fpc = "done"
    /\ fmt = <<"P", "N", "G">>
    /\ quality = <<DEFAULT_QUALITY>>
    /\ toFormatCall = << [format |-> Png, options |-> NoOptions] >>

====
